---------------------------- MODULE Spec2Model ----------------------------
(***************************************************************************)
(* A model of sosw's EcologyManager (src/sosw/managers/ecology.py) and of  *)
(* the ConfigSource facade (src/sosw/components/config.py).                *)
(*                                                                         *)
(* The specifications share the module's variables:                        *)
(*   SpecGetHealth  the pure threshold walk EcologyManager.get_health      *)
(*   SpecStatus     registration and get_labourer_status (the sample cache)*)
(*   SpecTasks      registration and the running-task counters             *)
(*   Spec           every operation of one EcologyManager                  *)
(*   SpecConfig     construction of a ConfigSource and its facade calls    *)
(*   SpecPaginate   the pagination helper of the adapters                  *)
(*   SpecGet        get_config through the facade, on either backend       *)
(*   SpecPrefix     get_credentials_by_prefix through the facade           *)
(*   SpecSecrets    get_secrets_credentials through the facade             *)
(*   SpecThreads    two threads adding running tasks on one manager        *)
(*   SpecTable      update_config, get_config and prefix lookup in sequence *)
(* Each specification leaves the other parts of the state at their initial *)
(* values.                                                                 *)
(***************************************************************************)
EXTENDS Integers, Sequences, FiniteSets, TLC

VARIABLES
    \* ---- get_health as a pure function (SpecGetHealth)
    gh_value,        \* the sample handed to get_health
    gh_metric,       \* the metric handed to get_health
    gh_ret,          \* what the call did
    \* ---- EcologyManager (Spec)
    task_client,     \* self.task_client: "None" or "TaskManager"
    health_metrics,  \* self.health_metrics: None, or a dict hash -> sample
    running_tasks,   \* self.running_tasks: a dict labourer id -> count
    eco_ret,         \* the last call on the manager and its outcome
    hm_log,          \* per metric hash: the samples fetched from the metrics source this epoch
    rt_log,          \* per labourer id: the counts fetched from the task manager this epoch
    rt_added,        \* per labourer id: how many deltas were added this epoch, and their sum
    stale,           \* whether both caches held entries right before the last registration
    threads,         \* per thread: the add_running_tasks_for_labourer call it is in, if any
    overlap,         \* this epoch: whether two add calls overlapped, or a registration and an add call
    \* ---- ConfigSource (SpecConfig)
    environ,         \* os.environ: STAGE and autotest
    cs,              \* the ConfigSource object under construction / constructed
    cs_ret,          \* the last constructor or facade call and its outcome
    \* ---- the backend adapters and the services behind them
    boto_pages,      \* the chain of pages a paginated service call answers with
    ssm_parameters,  \* Parameter Store: the parameters, each with its tag, type and value
    dynamo_tables,   \* the config tables: table name -> rows
    secrets,         \* Secrets Manager: the secrets
    dynamo_client,   \* the table the default Dynamo adapter's client is bound to ("none": no client yet)
    io               \* the last adapter call: its arguments, the service calls it made, its result

eco_vars == <<task_client, health_metrics, running_tasks, eco_ret, hm_log, rt_log, rt_added, stale,
              threads, overlap>>
gh_vars  == <<gh_value, gh_metric, gh_ret>>
store_vars == <<boto_pages, ssm_parameters, dynamo_tables, secrets>>
svc_vars == <<store_vars, dynamo_client, io>>
cfg_vars == <<environ, cs, cs_ret, svc_vars>>
vars     == <<gh_value, gh_metric, gh_ret,
              task_client, health_metrics, running_tasks, eco_ret, hm_log, rt_log, rt_added, stale,
              threads, overlap,
              environ, cs, cs_ret, boto_pages, ssm_parameters, dynamo_tables, secrets, dynamo_client, io>>

-----------------------------------------------------------------------------
(* Bounds of the model *)

\* the largest number of feelings a metric of the get_health inputs carries
MaxFeelings == 3

-----------------------------------------------------------------------------
(* ECO_STATUSES and the comparison operators *)

\* ECO_STATUSES: (0,'Bad') (1,'Poor') (2,'Moderate') (3,'Good') (4,'High')
ECO_STATUSES == <<0, 1, 2, 3, 4>>

eco_statuses == {ECO_STATUSES[i] : i \in DOMAIN ECO_STATUSES}

SetMax(S) == CHOOSE m \in S : \A x \in S : x <= m

SetMin(S) == CHOOSE m \in S : \A x \in S : m <= x

\* health = max(map(lambda x: x[0], ECO_STATUSES))
MaxEcoStatus == SetMax(eco_statuses)

\* the comparison functions of Python's operator module a metric may name
Operators == {"lt", "le", "eq", "ne", "ge", "gt"}

\* op = getattr(operator, name); op(a, b)
ApplyOp(op, a, b) ==
    CASE op = "lt" -> a < b
      [] op = "le" -> a <= b
      [] op = "eq" -> a = b
      [] op = "ne" -> a # b
      [] op = "ge" -> a >= b
      [] op = "gt" -> a > b

-----------------------------------------------------------------------------
(* EcologyManager.get_health *)

\* the keys in ascending order: the sort without reverse=True
RECURSIVE SortedAscending(_)
SortedAscending(S) ==
    IF S = {} THEN <<>> ELSE LET m == SetMin(S) IN <<m>> \o SortedAscending(S \ {m})

\* sorted(metric['feelings'].keys(), reverse=True)
RECURSIVE SortedKeys(_)
SortedKeys(S) ==
    IF S = {} THEN <<>> ELSE LET m == SetMax(S) IN <<m>> \o SortedKeys(S \ {m})

\* last_target = 0
LastTargetSeed == 0

\* the order check with its sense inverted
OrderCheck_Negated(op, target, last_target) == ~ApplyOp(op, target, last_target)

\* if op(target, last_target): raise ValueError
OrderCheck(op, target, last_target) == ApplyOp(op, target, last_target)

\* the loop of get_health from position i of the ordered feelings; the result
\* records how the call ended, at which step (Len(keys)+1: the loop ran out)
\* and the last_target that step compared with
RECURSIVE FeelingsWalk(_, _, _, _, _, _)
FeelingsWalk(op, value, feelings, keys, i, last_target) ==
    IF i > Len(keys)
    THEN [outcome |-> "return", health |-> 0, step |-> i, last_target |-> last_target]
    ELSE LET health == keys[i]
             target == feelings[health]
         IN  IF OrderCheck(op, target, last_target)
             THEN [outcome |-> "ValueError", health |-> -1, step |-> i, last_target |-> last_target]
             ELSE IF ApplyOp(op, value, target)
                  THEN [outcome |-> "return", health |-> health, step |-> i, last_target |-> last_target]
                  ELSE FeelingsWalk(op, value, feelings, keys, i + 1, target)

get_health(value, metric) ==
    FeelingsWalk(metric.feeling_comparison_operator, value, metric.feelings,
                 SortedKeys(DOMAIN metric.feelings), 1, LastTargetSeed)


\* what a get_health call that has not happened looks like
NoHealthCall == [outcome |-> "none", health |-> -1, step |-> 0, last_target |-> 0]

-----------------------------------------------------------------------------
(* The inputs of get_health *)

Thresholds == {-10, 0, 10, 20, 30}

Samples == {-15, 5, 15, 25, 35}

FeelingsKeySets == {K \in SUBSET eco_statuses : Cardinality(K) <= MaxFeelings}

AllFeelings == UNION {[K -> Thresholds] : K \in FeelingsKeySets}

CpuDetails == [MetricName |-> "CPUUtilization"]

ErrDetails == [MetricName |-> "Errors"]

Details == {CpuDetails, ErrDetails}

GhMetrics ==
    {[details |-> CpuDetails, feelings |-> f, feeling_comparison_operator |-> op] :
        f \in AllFeelings, op \in Operators}

-----------------------------------------------------------------------------
(* SpecGetHealth: get_health applied to every input of the bounded sets *)

\* the threads of the process that call the manager
Threads == {"t1", "t2"}

\* a thread that is in no call
IdleThread == [pc |-> "idle", id |-> "", count |-> 0, current |-> 0]

\* some thread is between the read and the write of an add call
InFlight == \E t \in Threads : threads[t].pc # "idle"

NoOverlap == [add |-> FALSE, reg |-> FALSE]

EcoInitState ==
    /\ threads = [t \in Threads |-> IdleThread]
    /\ overlap = NoOverlap
    /\ task_client = "None"
    /\ health_metrics = [isNone |-> TRUE, cache |-> <<>>]
    /\ running_tasks = <<>>
    /\ eco_ret = [op |-> "none", outcome |-> "none", val |-> -1, lab |-> <<>>, id |-> "",
                  drift |-> FALSE]
    /\ hm_log = <<>>
    /\ rt_log = <<>>
    /\ rt_added = <<>>
    /\ stale = FALSE

\* no ConfigSource constructed yet
NoConfigSource ==
    [status |-> "none", test |-> FALSE, adapters |-> <<>>, dynamo_config |-> 0,
     ssm_config |-> 0, default_source |-> 0, secrets_manager_class |-> <<>>,
     args |-> [test |-> FALSE, sources |-> [kind |-> "none", parts |-> <<>>]]]

NoConfigCall == [op |-> "none", outcome |-> "none", target |-> 0]

\* no adapter call made yet
NoCall == [op |-> "none"]

\* the services as the specifications that do not use them leave them
SvcInitState ==
    /\ boto_pages = <<>>
    /\ ssm_parameters = {}
    /\ dynamo_tables = <<>>
    /\ secrets = {}
    /\ dynamo_client = "none"
    /\ io = NoCall

CfgInitState ==
    /\ environ = [STAGE |-> "", autotest |-> ""]
    /\ cs = NoConfigSource
    /\ cs_ret = NoConfigCall
    /\ SvcInitState

GhInitState ==
    /\ gh_value = 0
    /\ gh_metric = [details |-> CpuDetails, feelings |-> <<>>, feeling_comparison_operator |-> "le"]
    /\ gh_ret = NoHealthCall

InitGetHealth ==
    /\ gh_value \in Samples
    /\ gh_metric \in GhMetrics
    /\ gh_ret = NoHealthCall
    /\ EcoInitState
    /\ CfgInitState

CallGetHealth ==
    /\ gh_ret.outcome = "none"
    /\ gh_ret' = get_health(gh_value, gh_metric)
    /\ UNCHANGED <<gh_value, gh_metric, eco_vars, cfg_vars>>

NextGetHealth == CallGetHealth

SpecGetHealth == InitGetHealth /\ [][NextGetHealth]_vars


-----------------------------------------------------------------------------
(* Claims about get_health, checked under SpecGetHealth *)

GhCalled == gh_ret.outcome # "none"

GhOp == gh_metric.feeling_comparison_operator

\* the thresholds in the order of the walk, highest ordinal first
GhKeys == SortedKeys(DOMAIN gh_metric.feelings)

GhTarget(i) == gh_metric.feelings[GhKeys[i]]

\* the threshold step i is compared with: the seed 0, then the previous threshold
GhLast(i) == IF i = 1 THEN 0 ELSE GhTarget(i - 1)

\* the steps a finished call has passed without raising
GhPassedSteps ==
    IF gh_ret.outcome = "ValueError" THEN 1 .. (gh_ret.step - 1)
    ELSE 1 .. (IF gh_ret.step > Len(GhKeys) THEN Len(GhKeys) ELSE gh_ret.step)

\* the metric of the worked example: feelings {0:10, 1:20, 2:30}, operator >=
ExampleMetric ==
    [details |-> CpuDetails,
     feelings |-> [k \in {0, 1, 2} |-> 10 * (k + 1)],
     feeling_comparison_operator |-> "ge"]

GhReturned(h) == gh_ret.outcome = "return" /\ gh_ret.health = h

\* C4: get_health with feelings {0:10, 1:20, 2:30} and operator >= returns 1
\* for sample 25, 2 for sample 35 and 0 for sample 5.
C4_ExampleReturns ==
    (GhCalled /\ gh_metric = ExampleMetric) =>
        /\ gh_value = 25 => GhReturned(1)
        /\ gh_value = 35 => GhReturned(2)
        /\ gh_value = 5  => GhReturned(0)

\* a metric whose thresholds are out of order for its operator: some step of
\* the walk finds operator(threshold, previous threshold) to hold
NonMonotonic == \E i \in 1 .. Len(GhKeys) : ApplyOp(GhOp, GhTarget(i), GhLast(i))

\* C5: for a metric whose feelings are non-monotonic for its operator,
\* get_health raises the configuration error for every sample value.
C5_NonMonotonicAlwaysRaises ==
    (GhCalled /\ NonMonotonic) => gh_ret.outcome = "ValueError"

\* C6 as stated: every step of the walk requires operator(threshold, lastTarget)
\* to hold, and the error is raised exactly at a step where it does not hold.
C6_RaisesWhereOperatorFails ==
    GhCalled =>
        /\ gh_ret.outcome = "ValueError" =>
               ~ApplyOp(GhOp, GhTarget(gh_ret.step), GhLast(gh_ret.step))
        /\ \A j \in GhPassedSteps : ApplyOp(GhOp, GhTarget(j), GhLast(j))

\* C6 amended: with lastTarget seeded at 0, the error is raised exactly at a
\* step where operator(threshold, lastTarget) holds; at every step the walk
\* passes without raising, operator(threshold, lastTarget) does not hold.
C6_RaisesWhereOperatorHolds ==
    GhCalled =>
        /\ gh_ret.outcome = "ValueError" =>
               /\ gh_ret.step \in 1 .. Len(GhKeys)
               /\ gh_ret.last_target = GhLast(gh_ret.step)
               /\ ApplyOp(GhOp, GhTarget(gh_ret.step), GhLast(gh_ret.step))
        /\ \A j \in GhPassedSteps : ~ApplyOp(GhOp, GhTarget(j), GhLast(j))

\* the error raised at a later step, against a configured threshold
C6_Witness ==
    /\ gh_ret.outcome = "ValueError"
    /\ gh_ret.step = 3
    /\ gh_ret.last_target # 0

\* the ordinals whose threshold the sample satisfies
GhSatisfied ==
    {h \in DOMAIN gh_metric.feelings : ApplyOp(GhOp, gh_value, gh_metric.feelings[h])}

\* C7: whenever get_health returns, the result is the highest ordinal h with
\* operator(sample, feelings[h]), or 0 when no threshold is satisfied; it is
\* always a key of feelings or 0.
C7_HighestSatisfied ==
    gh_ret.outcome = "return" =>
        /\ gh_ret.health = (IF GhSatisfied = {} THEN 0 ELSE SetMax(GhSatisfied))
        /\ gh_ret.health \in (DOMAIN gh_metric.feelings) \cup {0}

\* a return at the second step with two ordinals satisfied
C7_Witness ==
    /\ gh_ret.outcome = "return"
    /\ gh_ret.step = 2
    /\ gh_ret.health > 0
    /\ Cardinality(GhSatisfied) >= 2


-----------------------------------------------------------------------------
(* EcologyManager: the objects it is handed *)

\* the largest running-task count the task manager answers with
MaxRunning == 2

\* the largest number of add_running_tasks_for_labourer calls per labourer id
\* and epoch
MaxAdds == 2

\* the largest number of health metrics of a labourer
MaxHealthMetrics == 2

\* the content hash of a metric's details: equal details, equal hash
make_hash(details) == <<"hash", details.MetricName>>

Hashes == {make_hash(d) : d \in Details}

\* the samples the metrics source answers with
EcoSamples == {5, 25}

\* what the metrics source would answer now, per details
MetricAnswers == [Details -> EcoSamples]

\* what get_count_of_running_tasks_for_labourer may answer
RunningCounts == 0 .. MaxRunning

\* the `count` argument of add_running_tasks_for_labourer (1 by default)
AddCounts == {1, 2}

LabourerIds == {"lab_a", "lab_b"}

\* what get_average_labourer_duration may answer
Durations == {30, 900}

\* configured health metrics: two on different details, one sharing the
\* details of the first, and one whose feelings are out of order
CpuMetric ==
    [details |-> CpuDetails, feelings |-> [k \in {3, 4} |-> IF k = 4 THEN 10 ELSE 30],
     feeling_comparison_operator |-> "le"]

ErrMetric ==
    [details |-> ErrDetails, feelings |-> [k \in {1, 2} |-> IF k = 2 THEN 10 ELSE 30],
     feeling_comparison_operator |-> "le"]

CpuStrictMetric ==
    [details |-> CpuDetails, feelings |-> [k \in {1} |-> 10],
     feeling_comparison_operator |-> "le"]

BrokenMetric ==
    [details |-> ErrDetails, feelings |-> [k \in {3, 4} |-> 10],
     feeling_comparison_operator |-> "le"]

MetricPool == {CpuMetric, ErrMetric, CpuStrictMetric, BrokenMetric}

\* labourer.health_metrics.values(), in the order of the dict
LabourerMetrics == UNION {[1 .. n -> MetricPool] : n \in 0 .. MaxHealthMetrics}

Put(f, k, v) == [x \in (DOMAIN f) \cup {k} |-> IF x = k THEN v ELSE f[x]]

Logged(log, k) == IF k \in DOMAIN log THEN log[k] ELSE <<>>

Ret(op, outcome, val, lab, id, drift) ==
    [op |-> op, outcome |-> outcome, val |-> val, lab |-> lab, id |-> id, drift |-> drift]

-----------------------------------------------------------------------------
(* EcologyManager.register_task_manager *)

\* a reset that only creates the cache when there is none
FreshHealthMetrics_KeepExisting ==
    IF health_metrics.isNone THEN [isNone |-> FALSE, cache |-> <<>>] ELSE health_metrics

\* self.health_metrics = dict()
FreshHealthMetrics == [isNone |-> FALSE, cache |-> <<>>]

\* self.running_tasks = defaultdict(int)
FreshRunningTasks == <<>>

register_task_manager ==
    /\ task_client' = "TaskManager"
    /\ running_tasks' = FreshRunningTasks
    /\ health_metrics' = FreshHealthMetrics
    /\ hm_log' = <<>>
    /\ rt_log' = <<>>
    /\ rt_added' = <<>>
    /\ stale' = (DOMAIN running_tasks # {} /\ DOMAIN health_metrics.cache # {})
    /\ eco_ret' = Ret("register_task_manager", "return", -1, <<>>, "", FALSE)
    /\ overlap' = [add |-> FALSE, reg |-> InFlight]
    /\ UNCHANGED <<threads, gh_vars, cfg_vars>>

-----------------------------------------------------------------------------
(* EcologyManager.get_labourer_status *)

\* a lookup that never finds the cached sample
CacheMiss_Always(hm, metric_hash) == TRUE

\* if metric_hash not in self.health_metrics
CacheMiss(hm, metric_hash) == metric_hash \notin DOMAIN hm.cache

\* health = max(map(lambda x: x[0], ECO_STATUSES))
HealthSeed == MaxEcoStatus

\* the membership test always finds a dict to look in
NoCache_Never(hm) == FALSE

\* self.health_metrics is still the class attribute None, on which
\* `metric_hash not in self.health_metrics` raises TypeError
NoCache(hm) == hm.isNone

\* the running status overwritten instead of reduced
Worse_Last(a, b) == b

\* min(health, ...)
Worse(a, b) == IF a <= b THEN a ELSE b

\* the loop over the labourer's metrics from position i; src is what the
\* metrics source answers now for each details, hm the cache, log the fetches
RECURSIVE StatusLoop(_, _, _, _, _, _)
StatusLoop(metrics, i, hm, health, src, log) ==
    IF i > Len(metrics)
    THEN [outcome |-> "return", health |-> health, hm |-> hm, log |-> log]
    ELSE IF NoCache(hm)
    THEN [outcome |-> "TypeError", health |-> -1, hm |-> hm, log |-> log]
    ELSE LET health_metric == metrics[i]
             metric_hash == make_hash(health_metric.details)
             miss  == CacheMiss(hm, metric_hash)
             fetched == src[health_metric.details]
             hm2   == IF miss THEN [hm EXCEPT !.cache = Put(@, metric_hash, fetched)] ELSE hm
             log2  == IF miss THEN Put(log, metric_hash, Append(Logged(log, metric_hash), fetched))
                      ELSE log
             value == hm2.cache[metric_hash]
             r     == get_health(value, health_metric)
         IN  IF r.outcome = "ValueError"
             THEN [outcome |-> "ValueError", health |-> -1, hm |-> hm2, log |-> log2]
             ELSE StatusLoop(metrics, i + 1, hm2, Worse(health, r.health), src, log2)

\* whether the metrics source would now answer some metric of the labourer
\* with another sample than the one cached before the call
Drifted(metrics, src) ==
    \E i \in 1 .. Len(metrics) :
        LET h == make_hash(metrics[i].details)
        IN  /\ h \in DOMAIN health_metrics.cache
            /\ health_metrics.cache[h] # src[metrics[i].details]

get_labourer_status(metrics, src) ==
    LET r == StatusLoop(metrics, 1, health_metrics, HealthSeed, src, hm_log)
    IN  /\ health_metrics' = r.hm
        /\ hm_log' = r.log
        /\ eco_ret' = Ret("get_labourer_status", r.outcome, r.health, metrics, "",
                          Drifted(metrics, src))
        /\ UNCHANGED <<task_client, running_tasks, rt_log, rt_added, stale, threads, overlap,
                       gh_vars, cfg_vars>>

-----------------------------------------------------------------------------
(* EcologyManager.count_running_tasks_for_labourer and
   add_running_tasks_for_labourer *)

\* if labourer.id not in self.running_tasks.keys()
CounterMiss(rt, id) == id \notin DOMAIN rt

\* the guard on the task manager left out
ClientMissing_Never == FALSE

\* if not self.task_client
ClientMissing == task_client = "None"

\* the getter: answer is what the task manager would answer now
CountRunning(id, answer) ==
    IF ClientMissing
    THEN [outcome |-> "RuntimeError", val |-> -1, rt |-> running_tasks, log |-> rt_log]
    ELSE LET miss == CounterMiss(running_tasks, id)
             rt2  == IF miss THEN Put(running_tasks, id, answer) ELSE running_tasks
             log2 == IF miss THEN Put(rt_log, id, Append(Logged(rt_log, id), answer)) ELSE rt_log
         IN  [outcome |-> "return", val |-> rt2[id], rt |-> rt2, log |-> log2]

count_running_tasks_for_labourer(id, answer) ==
    LET r == CountRunning(id, answer)
    IN  /\ running_tasks' = r.rt
        /\ rt_log' = r.log
        /\ eco_ret' = Ret("count_running_tasks_for_labourer", r.outcome, r.val, <<>>, id, FALSE)
        /\ UNCHANGED <<task_client, health_metrics, hm_log, rt_added, stale, threads, overlap,
                       gh_vars, cfg_vars>>

Added(id) == IF id \in DOMAIN rt_added THEN rt_added[id] ELSE [n |-> 0, sum |-> 0]

\* the delta stored instead of added
StoreSum_Overwrite(rt, id, current, count) == Put(rt, id, count)

\* the getter's result stored without the delta
StoreSum_Current(rt, id, current, count) == Put(rt, id, current)

\* self.running_tasks[labourer.id] = <the getter's result> + count
StoreSum(rt, id, current, count) == Put(rt, id, current + count)

add_running_tasks_for_labourer(id, count, answer) ==
    LET r == CountRunning(id, answer)
    IN  /\ Added(id).n < MaxAdds
        /\ IF r.outcome = "RuntimeError"
           THEN /\ eco_ret' = Ret("add_running_tasks_for_labourer", "RuntimeError", -1, <<>>, id, FALSE)
                /\ UNCHANGED <<running_tasks, rt_log, rt_added>>
           ELSE /\ running_tasks' = StoreSum(r.rt, id, r.val, count)
                /\ rt_log' = r.log
                /\ rt_added' = Put(rt_added, id, [n |-> Added(id).n + 1, sum |-> Added(id).sum + count])
                /\ eco_ret' = Ret("add_running_tasks_for_labourer", "return", -1, <<>>, id, FALSE)
        /\ UNCHANGED <<task_client, health_metrics, hm_log, stale, threads, overlap,
                       gh_vars, cfg_vars>>

\* get_labourer_average_duration: duration is what the task manager answers
get_labourer_average_duration(id, duration) ==
    /\ eco_ret' = IF ClientMissing
                  THEN Ret("get_labourer_average_duration", "RuntimeError", -1, <<>>, id, FALSE)
                  ELSE Ret("get_labourer_average_duration", "return", duration, <<>>, id, FALSE)
    /\ UNCHANGED <<task_client, health_metrics, running_tasks, hm_log, rt_log, rt_added, stale,
                   threads, overlap, gh_vars, cfg_vars>>

-----------------------------------------------------------------------------
(* The specifications of the EcologyManager *)

Init == EcoInitState /\ GhInitState /\ CfgInitState

\* SpecStatus: registration and health evaluation
NextStatus ==
    \/ register_task_manager
    \/ \E metrics \in LabourerMetrics, src \in MetricAnswers :
           get_labourer_status(metrics, src)

SpecStatus == Init /\ [][NextStatus]_vars

\* SpecTasks: registration and the running-task counters
NextTasks ==
    \/ register_task_manager
    \/ \E id \in LabourerIds, answer \in RunningCounts :
           count_running_tasks_for_labourer(id, answer)
    \/ \E id \in LabourerIds, count \in AddCounts, answer \in RunningCounts :
           add_running_tasks_for_labourer(id, count, answer)
    \/ \E id \in LabourerIds, duration \in Durations :
           get_labourer_average_duration(id, duration)

SpecTasks == Init /\ [][NextTasks]_vars

\* Spec: every operation of one manager, for one labourer id and two
\* configurations of its health metrics
EpochLabourers == {<<CpuMetric>>, <<CpuMetric, ErrMetric>>}

TheLabourerId == "lab_a"

Next ==
    \/ register_task_manager
    \/ \E metrics \in EpochLabourers, src \in MetricAnswers :
           get_labourer_status(metrics, src)
    \/ \E answer \in RunningCounts :
           count_running_tasks_for_labourer(TheLabourerId, answer)
    \/ \E count \in AddCounts, answer \in RunningCounts :
           add_running_tasks_for_labourer(TheLabourerId, count, answer)
    \/ \E duration \in Durations : get_labourer_average_duration(TheLabourerId, duration)

Spec == Init /\ [][Next]_vars


-----------------------------------------------------------------------------
(* Claims about the EcologyManager *)

StatusReturned == eco_ret.op = "get_labourer_status" /\ eco_ret.outcome = "return"

\* the status of metric i of the last evaluated labourer on the cached sample
CachedHealth(i) ==
    get_health(health_metrics.cache[make_hash(eco_ret.lab[i].details)], eco_ret.lab[i])

\* C1: get_labourer_status returns the minimum of get_health(sample, metric)
\* over the labourer's health metrics, and High (4) when it has none; when it
\* raises instead, one of the evaluated metrics raises.
C1_StatusIsMinimum ==
    /\ StatusReturned =>
           /\ \A i \in 1 .. Len(eco_ret.lab) : CachedHealth(i).outcome = "return"
           /\ eco_ret.val =
                  IF eco_ret.lab = <<>> THEN 4
                  ELSE SetMin({CachedHealth(i).health : i \in 1 .. Len(eco_ret.lab)})
    /\ (eco_ret.op = "get_labourer_status" /\ eco_ret.outcome = "ValueError") =>
           \E i \in 1 .. Len(eco_ret.lab) :
               /\ make_hash(eco_ret.lab[i].details) \in DOMAIN health_metrics.cache
               /\ CachedHealth(i).outcome = "ValueError"

\* two metrics with statuses 3 and 1 give 1
C1_Witness ==
    /\ StatusReturned
    /\ task_client = "TaskManager"
    /\ Len(eco_ret.lab) = 2
    /\ CachedHealth(1).health = 3
    /\ CachedHealth(2).health = 1
    /\ eco_ret.val = 1

\* the status of metric i of the last evaluated labourer on the sample that
\* was fetched first in this epoch for its hash
FirstFetchedHealth(i) ==
    get_health(hm_log[make_hash(eco_ret.lab[i].details)][1], eco_ret.lab[i])

\* C2: within one epoch the metrics source is queried at most once per hash
\* of details, and every evaluation uses the sample fetched first, whatever
\* the source would answer now.
C2_FetchedOncePerHash ==
    /\ \A h \in DOMAIN hm_log : Len(hm_log[h]) <= 1
    /\ \A h \in DOMAIN health_metrics.cache :
           /\ h \in DOMAIN hm_log
           /\ health_metrics.cache[h] = hm_log[h][1]
    /\ (StatusReturned /\ eco_ret.lab # <<>>) =>
           eco_ret.val = SetMin({FirstFetchedHealth(i).health : i \in 1 .. Len(eco_ret.lab)})

\* an evaluation that used a cached sample while the source would now answer
\* with another one
C2_Witness ==
    /\ StatusReturned
    /\ eco_ret.drift
    /\ eco_ret.lab # <<>>

\* C3: register_task_manager empties both caches: right after it both are
\* empty, and every entry either cache holds was fetched after the last
\* registration.
C3_RegistrationResetsCaches ==
    /\ eco_ret.op = "register_task_manager" =>
           /\ health_metrics = [isNone |-> FALSE, cache |-> <<>>]
           /\ running_tasks = <<>>
    /\ \A h \in DOMAIN health_metrics.cache :
           /\ Logged(hm_log, h) # <<>>
           /\ health_metrics.cache[h] = hm_log[h][1]
    /\ \A id \in DOMAIN running_tasks :
           /\ Logged(rt_log, id) # <<>>
           /\ running_tasks[id] = rt_log[id][1] + Added(id).sum

\* both caches held entries before the last registration and hold fetched
\* entries again
C3_Witness ==
    /\ stale
    /\ DOMAIN health_metrics.cache # {}
    /\ DOMAIN running_tasks # {}

\* C8: within one epoch the task manager is asked for an id's running count
\* exactly once, on the first count or add for that id; the counter of every
\* id is the fetched value plus the sum of the deltas added for that id, and
\* that is what count returns.
C8_CounterIsFetchedPlusDeltas ==
    /\ \A id \in LabourerIds :
           /\ Len(Logged(rt_log, id)) = (IF id \in DOMAIN running_tasks THEN 1 ELSE 0)
           /\ id \notin DOMAIN running_tasks => Added(id).n = 0
    /\ \A id \in DOMAIN running_tasks :
           running_tasks[id] = rt_log[id][1] + Added(id).sum
    /\ (eco_ret.op = "count_running_tasks_for_labourer" /\ eco_ret.outcome = "return") =>
           eco_ret.val = rt_log[eco_ret.id][1] + Added(eco_ret.id).sum

\* count after two adds, with a counter for the other id as well
C8_Witness ==
    /\ eco_ret.op = "count_running_tasks_for_labourer"
    /\ eco_ret.outcome = "return"
    /\ Added(eco_ret.id).n = 2
    /\ \E other \in DOMAIN running_tasks :
           other # eco_ret.id /\ running_tasks[other] # running_tasks[eco_ret.id]

\* C9: before a task manager is registered, count, add and average-duration
\* raise, and the running-task counters stay as they were (empty).
C9_RaisesBeforeRegistration ==
    task_client = "None" =>
        /\ running_tasks = <<>>
        /\ eco_ret.op \in {"count_running_tasks_for_labourer",
                           "add_running_tasks_for_labourer",
                           "get_labourer_average_duration"} =>
               eco_ret.outcome = "RuntimeError"

C9_Witness ==
    /\ task_client = "None"
    /\ eco_ret.op = "add_running_tasks_for_labourer"
    /\ eco_ret.outcome = "RuntimeError"


-----------------------------------------------------------------------------
(* ConfigSource: construction *)

\* the largest number of comma-separated identifiers in `sources`
MaxSources == 2

\* SUPPORTED_SOURCES = ('Dynamo', 'SSM')
SUPPORTED_SOURCES == {"Dynamo", "SSM"}

\* the classes of the module a name f"{source}Config" resolves to
ConfigClasses == {"Dynamo", "SSM"}

\* the comma-separated segments a caller may write
RawSegments == {"Dynamo", "SSM", " SSM", "Foo", ""}

\* x.strip()
Strip(x) == IF x = " SSM" THEN "SSM" ELSE x

\* the `sources` argument: None, a string given by its comma-separated
\* segments (the empty string has the one segment ""), or a list
SourcesArgs ==
    {[kind |-> "none", parts |-> <<>>]}
    \cup {[kind |-> "str", parts |-> p] : p \in UNION {[1 .. n -> RawSegments] : n \in 1 .. MaxSources}}
    \cup {[kind |-> "list", parts |-> p] : p \in {<<>>, <<"SSM">>}}

\* os.environ
Environs == [STAGE : {"", "test", "autotest"}, autotest : {"", "True"}]

\* os.environ.get('STAGE') == 'test' or os.environ.get('autotest') == 'True'
AmbientTest == environ.STAGE = "test" \/ environ.autotest = "True"

\* self.test = test; if not self.test: self.test = <ambient markers>
AdapterTest(test) == IF test THEN TRUE ELSE AmbientTest

\* SSMConfig(config=cfg, test=...) and DynamoConfig(config=cfg, test=...)
NewAdapter(source, test) == [cls |-> source, test |-> AdapterTest(test)]

\* self.test = test or True if os.environ.get('STAGE') == 'test' else False
ResolverTest(test) == IF environ.STAGE = "test" THEN (test \/ TRUE) ELSE FALSE

\* `not sources`
Falsy(sources) ==
    \/ sources.kind = "none"
    \/ sources.kind = "str" /\ sources.parts = <<"">>
    \/ sources.kind = "list" /\ sources.parts = <<>>

\* [x.strip() for x in sources.split(',')]
SplitSources(sources) == [i \in 1 .. Len(sources.parts) |-> Strip(sources.parts[i])]

\* assert all(x in self.SUPPORTED_SOURCES for x in sources)
AllSupported(sources) == \A i \in 1 .. Len(sources) : sources[i] \in SUPPORTED_SOURCES

\* every adapter built takes over as the default
KeepsDefault_Never(self) == FALSE

\* `if not self.default_source` is false: a default is already set
KeepsDefault(self) == self.default_source # 0

\* setattr(self, f"{source.lower()}_config", cls), cls being adapter number k
SetAttr(self, source, k) ==
    IF source = "Dynamo" THEN [self EXCEPT !.dynamo_config = k]
    ELSE [self EXCEPT !.ssm_config = k]

\* getattr(self, f"{source.lower()}_config")
GetAttr(self, source) == IF source = "Dynamo" THEN self.dynamo_config ELSE self.ssm_config

\* the loop of __init__ over the identifiers from position i
RECURSIVE BuildAdapters(_, _, _)
BuildAdapters(sources, i, self) ==
    IF i > Len(sources) THEN self
    ELSE IF sources[i] \notin ConfigClasses
    THEN [self EXCEPT !.status = "KeyError"]
    ELSE LET source == sources[i]
             built  == [self EXCEPT !.adapters = Append(@, NewAdapter(source, self.test))]
             set    == SetAttr(built, source, Len(built.adapters))
             chosen == IF KeepsDefault(set) THEN set
                       ELSE [set EXCEPT !.default_source = GetAttr(set, source)]
         IN  BuildAdapters(sources, i + 1, chosen)

\* ConfigSource.__init__(test, sources): the object as __init__ leaves it;
\* status is "ok", or the exception that ends the construction
Constructed(test, sources) ==
    LET self == [NoConfigSource EXCEPT !.test = ResolverTest(test),
                                       !.args = [test |-> test, sources |-> sources]]
    IN  IF ~Falsy(sources) /\ sources.kind # "str"
        THEN [self EXCEPT !.status = "ValueError"]
        ELSE LET list == IF Falsy(sources) THEN <<"Dynamo">> ELSE SplitSources(sources)
             IN  IF ~AllSupported(list)
                 THEN [self EXCEPT !.status = "AssertionError"]
                 ELSE LET looped == BuildAdapters(list, 1, self)
                      IN  IF looped.status # "none" THEN looped
                          ELSE [looped EXCEPT !.status = "ok",
                                              !.secrets_manager_class = [test |-> AdapterTest(FALSE)]]

ConfigSource_init(test, sources) ==
    /\ cs' = Constructed(test, sources)
    /\ cs_ret' = [op |-> "__init__", outcome |-> cs'.status, target |-> 0]
    /\ dynamo_client' = "none"
    /\ UNCHANGED <<environ, store_vars, io, gh_vars, eco_vars>>

-----------------------------------------------------------------------------
(* ConfigSource: the facade *)

\* return self.default_source.<op>(...): the call arrives at adapter number
\* default_source
Delegate(op) ==
    /\ cs.status = "ok"
    /\ cs_ret' = [op |-> op, outcome |-> "return", target |-> cs.default_source]
    /\ UNCHANGED <<cs, environ, svc_vars, gh_vars, eco_vars>>

ConfigSource_get_config == Delegate("get_config")

ConfigSource_update_config == Delegate("update_config")

ConfigSource_get_credentials_by_prefix == Delegate("get_credentials_by_prefix")

-----------------------------------------------------------------------------
(* SpecConfig: a process constructing ConfigSource objects and calling them *)

InitConfig ==
    /\ environ \in Environs
    /\ cs = NoConfigSource
    /\ cs_ret = NoConfigCall
    /\ SvcInitState
    /\ GhInitState
    /\ EcoInitState

NextConfig ==
    \/ \E test \in BOOLEAN, sources \in SourcesArgs : ConfigSource_init(test, sources)
    \/ ConfigSource_get_config
    \/ ConfigSource_update_config
    \/ ConfigSource_get_credentials_by_prefix

SpecConfig == InitConfig /\ [][NextConfig]_vars

-----------------------------------------------------------------------------
(* Claims about ConfigSource *)

\* the identifiers the caller wrote, when `sources` is a non-empty string
Identifiers == [i \in 1 .. Len(cs.args.sources.parts) |-> Strip(cs.args.sources.parts[i])]

GivenIdentifiers == cs.args.sources.kind = "str" /\ cs.args.sources.parts # <<"">>

FacadeOps == {"get_config", "update_config", "get_credentials_by_prefix"}

\* C10: with supported identifiers only, construction succeeds, the adapter
\* of the first identifier is the default (with one identifier: that
\* backend's adapter) and every facade call goes to it; with any unsupported
\* identifier construction fails before any adapter is built.
C10_FirstSourceIsDefault ==
    (cs.status # "none" /\ GivenIdentifiers) =>
        IF \A i \in 1 .. Len(Identifiers) : Identifiers[i] \in {"Dynamo", "SSM"}
        THEN /\ cs.status = "ok"
             /\ Len(cs.adapters) = Len(Identifiers)
             /\ cs.default_source = 1
             /\ cs.adapters[cs.default_source].cls = Identifiers[1]
             /\ cs_ret.op \in FacadeOps =>
                    /\ cs_ret.target = cs.default_source
                    /\ cs.adapters[cs_ret.target].cls = Identifiers[1]
        ELSE /\ cs.status \notin {"ok", "none"}
             /\ cs.adapters = <<>>
             /\ cs.default_source = 0
             /\ cs_ret.op \notin FacadeOps

\* two different backends configured, a facade call delivered
C10_Witness ==
    /\ cs.status = "ok"
    /\ Len(cs.adapters) = 2
    /\ cs.adapters[1].cls # cs.adapters[2].cls
    /\ cs_ret.op = "update_config"
    /\ cs_ret.target = 1


\* the mode the caller asks for: the explicit flag or an ambient marker
WantedTestMode == cs.args.test \/ AmbientTest

\* C11: test mode of a ConfigSource is on whenever the explicit test flag is
\* true or an ambient environment marker is set, and then every adapter the
\* resolver owns (each backend adapter and the Secret-Vault adapter) is in
\* test mode too.
C11_TestModePropagates ==
    cs.status = "ok" =>
        /\ cs.test = WantedTestMode
        /\ WantedTestMode =>
               /\ \A i \in 1 .. Len(cs.adapters) : cs.adapters[i].test
               /\ cs.secrets_manager_class.test


-----------------------------------------------------------------------------
(* SSMConfig.call_boto_with_pagination and
   SecretsManager.call_boto_secrets_with_pagination *)

\* the largest number of pages a service answers a listing with
MaxPages == 3

\* the number of service calls after which the model stops following a loop
MaxCalls == 5

\* func(**kwargs) on a service that holds the chain `pages`: without a token
\* (0) the first page, with token t page t; the response names the next page
\* as its NextToken unless it is the last (0: the response has no NextToken)
Respond(pages, token) ==
    LET i == IF token = 0 THEN 1 ELSE token
    IN  [body |-> pages[i], NextToken |-> IF i < Len(pages) THEN i + 1 ELSE 0]

\* paginator.paginate(**kwargs): the client follows the tokens itself
NativePaginate(pages) ==
    [outcome |-> "return",
     response_list |-> pages,
     calls |-> [i \in 1 .. Len(pages) |-> IF i = 1 THEN 0 ELSE i]]

\* while 'NextToken' in response: kwargs['NextToken'] = response['NextToken'];
\* response_list.append(func(**kwargs))
\* `response` is the first response throughout: the loop never rebinds it.
\* calls is the sequence of tokens sent so far (0: none).
RECURSIVE ManualLoop(_, _, _, _)
ManualLoop(pages, response, response_list, calls) ==
    IF response.NextToken = 0
    THEN [outcome |-> "return", response_list |-> response_list, calls |-> calls]
    ELSE IF Len(calls) >= MaxCalls
    THEN [outcome |-> "looping", response_list |-> response_list, calls |-> calls]
    ELSE LET token == response.NextToken
         IN  ManualLoop(pages, response,
                        Append(response_list, Respond(pages, token).body),
                        Append(calls, token))

\* response = func(**kwargs); response_list.append(response); the loop
ManualPaginate(pages) ==
    LET response == Respond(pages, 0)
    IN  ManualLoop(pages, response, <<response.body>>, <<0>>)

\* call_boto_with_pagination(f, **kwargs) on a service answering with `pages`
call_boto_with_pagination(pages, can_paginate) ==
    IF can_paginate THEN NativePaginate(pages) ELSE ManualPaginate(pages)

-----------------------------------------------------------------------------
(* SpecPaginate: the helper against every chain of up to MaxPages pages *)

PageBodies == {<<>>, <<"p">>, <<"q">>}

PageChains == UNION {[1 .. k -> PageBodies] : k \in 1 .. MaxPages}

PaginatingAdapters == {"SSMConfig", "SecretsManager"}

InitPaginate ==
    /\ boto_pages \in PageChains
    /\ ssm_parameters = {}
    /\ dynamo_tables = <<>>
    /\ secrets = {}
    /\ dynamo_client = "none"
    /\ io = NoCall
    /\ environ = [STAGE |-> "", autotest |-> ""]
    /\ cs = NoConfigSource
    /\ cs_ret = NoConfigCall
    /\ GhInitState
    /\ EcoInitState

Paginate(adapter, can_paginate) ==
    /\ io' = [op |-> "call_boto_with_pagination", adapter |-> adapter,
              can_paginate |-> can_paginate,
              ret |-> call_boto_with_pagination(boto_pages, can_paginate)]
    /\ UNCHANGED <<store_vars, dynamo_client, environ, cs, cs_ret, gh_vars, eco_vars>>

NextPaginate ==
    \E adapter \in PaginatingAdapters, can_paginate \in BOOLEAN : Paginate(adapter, can_paginate)

SpecPaginate == InitPaginate /\ [][NextPaginate]_vars

\* C12: the manual continuation-token loop, for a service that answers with
\* k pages: it issues exactly k calls, each with the previous response's
\* token, ends, and returns the k pages once each in order.
C12_ManualLoopFetchesEachPageOnce ==
    (io.op = "call_boto_with_pagination" /\ ~io.can_paginate) =>
        /\ Len(io.ret.calls) <= Len(boto_pages)
        /\ \A i \in 1 .. Len(io.ret.calls) : io.ret.calls[i] = (IF i = 1 THEN 0 ELSE i)
        /\ io.ret.outcome = "return"
        /\ io.ret.response_list = boto_pages


-----------------------------------------------------------------------------
(* Python values and json.loads *)

PyStr(text) == [type |-> "str", v |-> text]

PyNone == [type |-> "NoneType", v |-> "None"]

EmptyDict == [type |-> "dict", v |-> "{}"]

\* the stored texts that are JSON documents, with the value each parses to
JsonDocuments ==
    [text \in {"{\"a\": 1}", "12", "null"} |->
        CASE text = "{\"a\": 1}" -> [type |-> "dict", v |-> "{'a': 1}"]
          [] text = "12"         -> [type |-> "int", v |-> "12"]
          [] text = "null"       -> PyNone]

\* the texts a store may hold: JSON documents and texts that are not JSON
StoredTexts == {"{\"a\": 1}", "12", "null", "plain", "None"}

\* what a SecureString reads as when it is fetched without decryption
Ciphertext == "AQICAHh"

\* json.loads(text): the parsed value, or the exception it raises
json_loads(text) ==
    IF text \in DOMAIN JsonDocuments
    THEN [raises |-> "none", value |-> JsonDocuments[text]]
    ELSE [raises |-> "JSONDecodeError", value |-> PyNone]

-----------------------------------------------------------------------------
(* SSMConfig.get_config *)

\* ssm_client.get_parameters(Names=[name], WithDecryption=...): the
\* parameters of that name, a SecureString undecrypted unless asked for
get_parameters(name, with_decryption) ==
    IF \E p \in ssm_parameters : p.Name = name
    THEN LET p == CHOOSE q \in ssm_parameters : q.Name = name
         IN  <<[p EXCEPT !.Value = IF p.Type = "SecureString" /\ ~with_decryption
                                   THEN Ciphertext ELSE @]>>
    ELSE <<>>

\* a second fetch, whatever the first did
NeedsRefetch_Always(first) == TRUE

\* `except Exception:` around the first fetch
NeedsRefetch(first) == ~first.ok

\* the exceptions `except (KeyError, IndexError, TypeError)` catches
CaughtOnParse == {"KeyError", "IndexError", "TypeError"}

\* get_config(name) against a service whose first and second answers fail as
\* `faults` says; calls: the fetches made, in order
SSMConfig_get_config(name, faults) ==
    LET first  == [WithDecryption |-> TRUE, ok |-> ~faults[1]]
        calls  == IF NeedsRefetch(first)
                  THEN <<first, [WithDecryption |-> FALSE, ok |-> ~faults[2]]>>
                  ELSE <<first>>
        last   == calls[Len(calls)]
        params == get_parameters(name, last.WithDecryption)
        found  == params # <<>>
        text   == IF found THEN params[1].Value ELSE ""
        parsed == IF found THEN json_loads(text) ELSE [raises |-> "IndexError", value |-> PyNone]
    IN  IF ~last.ok
        THEN [outcome |-> "ClientError", value |-> PyNone, calls |-> calls,
              found |-> FALSE, text |-> ""]
        ELSE IF parsed.raises = "none"
        THEN [outcome |-> "return", value |-> parsed.value, calls |-> calls,
              found |-> found, text |-> text]
        ELSE IF parsed.raises \in CaughtOnParse
        THEN [outcome |-> "return", value |-> EmptyDict, calls |-> calls,
              found |-> found, text |-> text]
        ELSE [outcome |-> parsed.raises, value |-> PyNone, calls |-> calls,
              found |-> found, text |-> text]

-----------------------------------------------------------------------------
(* DynamoConfig.get_config *)

TableNames == {"config", "autotest_config", "autotest_config_component"}

\* 'table_name': 'config' if not self.test else 'autotest_config'
ConfiguredTable(adapter) == IF adapter.test THEN "autotest_config" ELSE "config"

\* _get_dynamo_client(): the table the adapter's client is bound to, the
\* client being made on first use
ClientTable(adapter) ==
    IF dynamo_client # "none" THEN dynamo_client
    ELSE IF adapter.test THEN "autotest_config_component"
    ELSE ConfiguredTable(adapter)

\* dynamo_client.get_by_query(keys={'env': env, 'config_name': name}): the
\* rows of the table with that key
get_by_query(table, env, name) ==
    {row \in dynamo_tables[table] : row.env = env /\ row.config_name = name}

\* get_config(name, env="production")
DynamoConfig_get_config(adapter, name, env) ==
    LET table == IF AmbientTest THEN "autotest_config" ELSE ClientTable(adapter)
        items == get_by_query(table, env, name)
        found == items # {}
        text  == IF found THEN (CHOOSE row \in items : TRUE).config_value ELSE ""
        parsed == IF found THEN json_loads(text) ELSE [raises |-> "TypeError", value |-> PyNone]
    IN  [outcome |-> "return",
         value |-> IF parsed.raises = "none" THEN parsed.value
                   ELSE IF found THEN PyStr(text) ELSE EmptyDict,
         calls |-> <<>>, found |-> found, text |-> text, table |-> table, env |-> env]

-----------------------------------------------------------------------------
(* SpecGet: ConfigSource.get_config(name) on the default adapter *)

\* the name asked for
ConfigName == <<"k">>

\* Parameter Store holding `text` under ConfigName
SsmHolding(text, type) ==
    {[Name |-> ConfigName, Tag |-> "production", Type |-> type, Value |-> text]}

\* the config tables, `table` holding `text` under ConfigName
DynamoHolding(text, table) ==
    [t \in TableNames |->
        IF t = table
        THEN {[env |-> "production", config_name |-> ConfigName, config_value |-> text]}
        ELSE {}]

DefaultBackends ==
    {[kind |-> "none", parts |-> <<>>],
     [kind |-> "str", parts |-> <<"Dynamo">>],
     [kind |-> "str", parts |-> <<"SSM">>]}

InitGet ==
    /\ environ \in Environs
    /\ cs = NoConfigSource
    /\ cs_ret = NoConfigCall
    /\ boto_pages = <<>>
    /\ secrets = {}
    /\ \/ ssm_parameters = {} /\ dynamo_tables = [t \in TableNames |-> {}]
       \/ \E text \in StoredTexts, type \in {"String", "SecureString"}, table \in TableNames :
              /\ ssm_parameters = SsmHolding(text, type)
              /\ dynamo_tables = DynamoHolding(text, table)
    /\ dynamo_client = "none"
    /\ io = NoCall
    /\ GhInitState
    /\ EcoInitState

\* return self.default_source.get_config(name)
Facade_get_config(name, faults) ==
    /\ cs.status = "ok"
    /\ LET adapter == cs.adapters[cs.default_source]
           ret == IF adapter.cls = "SSM" THEN SSMConfig_get_config(name, faults)
                  ELSE DynamoConfig_get_config(adapter, name, "production")
       IN  /\ io' = [op |-> "get_config", cls |-> adapter.cls, name |-> name,
                     faults |-> faults, ret |-> ret]
           /\ dynamo_client' = IF adapter.cls = "Dynamo" THEN ret.table ELSE dynamo_client
           /\ cs_ret' = [op |-> "get_config", outcome |-> ret.outcome, target |-> cs.default_source]
    /\ UNCHANGED <<cs, environ, store_vars, gh_vars, eco_vars>>

NextGet ==
    \/ \E test \in BOOLEAN, sources \in DefaultBackends : ConfigSource_init(test, sources)
    \/ \E faults \in [1 .. 2 -> BOOLEAN] : Facade_get_config(ConfigName, faults)

SpecGet == InitGet /\ [][NextGet]_vars

\* a get_config call whose last fetch the service answered
GetAnswered ==
    /\ io.op = "get_config"
    /\ io.cls = "SSM" => io.ret.calls[Len(io.ret.calls)].ok

\* C13: get_config(name) through the facade, on either default backend,
\* returns the parsed JSON when the stored text is JSON, the raw string when
\* it is not, an empty mapping when the name is absent, and never raises for
\* a missing or non-JSON value.
C13_GetReturnsParsedRawOrEmpty ==
    GetAnswered =>
        /\ io.ret.outcome = "return"
        /\ io.ret.value = (IF ~io.ret.found THEN EmptyDict
                           ELSE IF io.ret.text \in DOMAIN JsonDocuments
                           THEN JsonDocuments[io.ret.text]
                           ELSE PyStr(io.ret.text))

\* C14: SSMConfig.get_config(name) returns an empty mapping when the
\* parameter is absent and whenever the stored text fails to parse, text that
\* is not JSON included, and propagates no error.
C14_SsmParseFailureGivesEmpty ==
    (GetAnswered /\ io.cls = "SSM"
        /\ (~io.ret.found \/ io.ret.text \notin DOMAIN JsonDocuments)) =>
            /\ io.ret.outcome = "return"
            /\ io.ret.value = EmptyDict

\* C15: SSMConfig.get_config(name) fetches with decryption first; it fetches
\* once more, without decryption, exactly when the first fetch failed; a
\* failure of the second fetch propagates; there are never more than two
\* fetches.
C15_OneFallbackFetch ==
    (io.op = "get_config" /\ io.cls = "SSM") =>
        LET calls == io.ret.calls
        IN  /\ Len(calls) \in {1, 2}
            /\ calls[1].WithDecryption
            /\ calls[1].ok = ~io.faults[1]
            /\ Len(calls) = 2 <=> io.faults[1]
            /\ Len(calls) = 2 =>
                   /\ ~calls[2].WithDecryption
                   /\ calls[2].ok = ~io.faults[2]
                   /\ io.faults[2] => io.ret.outcome = "ClientError"

\* both fetches failed and the failure reached the caller
C15_Witness ==
    /\ io.op = "get_config"
    /\ io.cls = "SSM"
    /\ Len(io.ret.calls) = 2
    /\ ~io.ret.calls[2].ok
    /\ io.ret.outcome = "ClientError"


-----------------------------------------------------------------------------
(* Names and prefixes: strings as sequences of tokens; "_" is the separator *)

\* s.endswith(t)
EndsWith(s, t) == Len(s) >= Len(t) /\ SubSeq(s, Len(s) - Len(t) + 1, Len(s)) = t

\* s.startswith(t)
StartsWith(s, t) == Len(s) >= Len(t) /\ SubSeq(s, 1, Len(t)) = t

\* s.replace(old, ''): every occurrence of old, left to right, is removed
RECURSIVE Replace(_, _)
Replace(s, old) ==
    IF Len(s) < Len(old) THEN s
    ELSE IF SubSeq(s, 1, Len(old)) = old
    THEN Replace(SubSeq(s, Len(old) + 1, Len(s)), old)
    ELSE <<s[1]>> \o Replace(Tail(s), old)

\* the prefix is used as the caller wrote it
NormalizePrefix_AsIs(prefix) == prefix

\* prefix if prefix.endswith('_') else prefix + '_'
NormalizePrefix(prefix) == IF EndsWith(prefix, <<"_">>) THEN prefix ELSE prefix \o <<"_">>

\* the elements of a set in the order the service lists them
RECURSIVE Listed(_)
Listed(S) ==
    IF S = {} THEN <<>>
    ELSE LET x == CHOOSE y \in S : TRUE IN <<x>> \o Listed(S \ {x})

\* [x for obj in responses for x in obj]
RECURSIVE Flatten(_)
Flatten(pages) == IF pages = <<>> THEN <<>> ELSE Head(pages) \o Flatten(Tail(pages))

\* helpers.chunks(l, n): l[i:i + n] for i in range(0, len(l), n)
chunks(l, n) ==
    [i \in 1 .. ((Len(l) + n - 1) \div n) |->
        SubSeq(l, (i - 1) * n + 1, IF i * n < Len(l) THEN i * n ELSE Len(l))]

\* d[k] = v
DictSet(d, k, v) == [x \in DOMAIN d \cup {k} |-> IF x = k THEN v ELSE d[x]]

\* a service call as the adapters issue it
ServiceCall(f, prefix, env, table, names, with_decryption) ==
    [f |-> f, prefix |-> prefix, env |-> env, table |-> table, Names |-> names,
     WithDecryption |-> with_decryption]

-----------------------------------------------------------------------------
(* SSMConfig.get_credentials_by_prefix *)

\* the number of parameters Parameter Store puts on one page of a listing
MaxResults == 10

\* chunks(names, 10)
ChunkSize == 10

\* ssm_client.can_paginate(f): the client has a paginator for
\* describe_parameters and none for get_parameters
CanPaginate(f) == f = "describe_parameters"

\* describe_parameters with the two filters: the pages of the listing
describe_parameters(env_tag, prefix) ==
    LET matching == Listed({p \in ssm_parameters : p.Tag = env_tag /\ StartsWith(p.Name, prefix)})
    IN  IF matching = <<>> THEN << <<>> >> ELSE chunks(matching, MaxResults)

\* get_parameters(Names=chunk, WithDecryption=...): one page, the parameters
\* of those names in the order asked for
get_parameters_of(names, with_decryption) ==
    << Flatten([i \in 1 .. Len(names) |-> get_parameters(names[i], with_decryption)]) >>

\* all the names go into one request
BatchNames_Whole(names) == <<names>>

\* for chunk_of_names in chunks(names, 10)
BatchNames(names) == chunks(names, ChunkSize)

\* x['Value'] if x['Value'] != 'None' else None
SsmValue(text) == IF text # "None" THEN PyStr(text) ELSE PyNone

\* result.update(dict([(x['Name'].replace(prefix, ''), ...) for x in params]))
RECURSIVE SsmUpdate(_, _, _, _)
SsmUpdate(result, params, i, prefix) ==
    IF i > Len(params) THEN result
    ELSE SsmUpdate(DictSet(result, Replace(params[i].Name, prefix), SsmValue(params[i].Value)),
                   params, i + 1, prefix)

\* the loop over the batches from batch number i
RECURSIVE SsmBatches(_, _, _, _, _, _)
SsmBatches(batches, i, decryption_required, prefix, result, calls) ==
    IF i > Len(batches)
    THEN [outcome |-> "return", value |-> result, calls |-> calls]
    ELSE LET paged == call_boto_with_pagination(
                          get_parameters_of(batches[i], decryption_required),
                          CanPaginate("get_parameters"))
             params == Flatten(paged.response_list)
         IN  SsmBatches(batches, i + 1, decryption_required, prefix,
                        SsmUpdate(result, params, 1, prefix),
                        Append(calls, ServiceCall("get_parameters", <<>>, "", "", batches[i],
                                                  decryption_required)))

\* get_credentials_by_prefix(prefix) of the adapter
SSMConfig_get_credentials_by_prefix(adapter, given) ==
    LET env_tag == IF ~adapter.test THEN "production" ELSE "dev"
        prefix  == NormalizePrefix(given)
        paged   == call_boto_with_pagination(describe_parameters(env_tag, prefix),
                                             CanPaginate("describe_parameters"))
        params  == Flatten(paged.response_list)
        names   == [i \in 1 .. Len(params) |-> params[i].Name]
        calls   == <<ServiceCall("describe_parameters", prefix, env_tag, "", <<>>, FALSE)>>
        decryption_required == \E i \in 1 .. Len(params) : params[i].Type = "SecureString"
    IN  IF names = <<>>
        THEN [outcome |-> "return", value |-> <<>>, calls |-> calls]
        ELSE SsmBatches(BatchNames(names), 1, decryption_required, prefix, <<>>, calls)

-----------------------------------------------------------------------------
(* DynamoConfig.get_credentials_by_prefix *)

\* get_by_query(keys={'env': env, 'config_name': prefix},
\*              comparisons={'config_name': 'begins_with'})
get_by_query_begins_with(table, env, prefix) ==
    Listed({row \in dynamo_tables[table] : row.env = env /\ StartsWith(row.config_name, prefix)})

\* try: row['config_value'] = json.loads(row['config_value']); except: pass
DynamoValue(text) ==
    LET parsed == json_loads(text)
    IN  IF parsed.raises = "none" THEN parsed.value ELSE PyStr(text)

\* the loop over the rows
RECURSIVE DynamoRows(_, _, _, _)
DynamoRows(res, items, i, prefix) ==
    IF i > Len(items) THEN res
    ELSE DynamoRows(DictSet(res, Replace(items[i].config_name, prefix),
                            DynamoValue(items[i].config_value)),
                    items, i + 1, prefix)

\* get_credentials_by_prefix(prefix, env="production") of the adapter
DynamoConfig_get_credentials_by_prefix(adapter, given) ==
    LET prefix == NormalizePrefix(given)
        env    == IF adapter.test \/ StartsWith(prefix, <<"autotest", "_">>)
                  THEN "dev" ELSE "production"
        table  == ClientTable(adapter)
        items  == get_by_query_begins_with(table, env, prefix)
    IN  [outcome |-> "return",
         value |-> DynamoRows(<<>>, items, 1, prefix),
         calls |-> <<ServiceCall("get_by_query", prefix, env, table, <<>>, FALSE)>>]

-----------------------------------------------------------------------------
(* SpecPrefix: ConfigSource.get_credentials_by_prefix(prefix) *)

\* the largest number of names a store holds
MaxNames == 14

\* the names a store may hold, in the order they were created:
\* x_a, xa, x_x_a, y_a, autotest_a, then x_b, x_bb, x_bbb, ...
StoredName(i) ==
    CASE i = 1 -> <<"x", "_", "a">>
      [] i = 2 -> <<"x", "a">>
      [] i = 3 -> <<"x", "_", "x", "_", "a">>
      [] i = 4 -> <<"y", "_", "a">>
      [] i = 5 -> <<"autotest", "_", "a">>
      [] OTHER -> <<"x", "_">> \o [j \in 1 .. i - 5 |-> "b"]

PrefixTexts == <<"None", "{\"a\": 1}", "plain", "12">>

\* the text stored under name number i
StoredValue(i) == PrefixTexts[(i % Len(PrefixTexts)) + 1]

SsmNamed(n, tag) ==
    {[Name |-> StoredName(i), Tag |-> tag,
      Type |-> IF i % 2 = 0 THEN "SecureString" ELSE "String",
      Value |-> StoredValue(i)] : i \in 1 .. n}

DynamoNamed(n, env, table) ==
    [t \in TableNames |->
        IF t = table
        THEN {[env |-> env, config_name |-> StoredName(i), config_value |-> StoredValue(i)]
                  : i \in 1 .. n}
        ELSE {}]

Prefixes == {<<"x">>, <<"x", "_">>, <<"y">>, <<"autotest">>}

InitPrefix ==
    /\ environ \in Environs
    /\ cs = NoConfigSource
    /\ cs_ret = NoConfigCall
    /\ boto_pages = <<>>
    /\ secrets = {}
    /\ \E n \in 0 .. MaxNames, env \in {"production", "dev"}, table \in TableNames :
           /\ ssm_parameters = SsmNamed(n, env)
           /\ dynamo_tables = DynamoNamed(n, env, table)
    /\ dynamo_client = "none"
    /\ io = NoCall
    /\ GhInitState
    /\ EcoInitState

\* the lookup as the default adapter performs it
PrefixLookup(adapter, prefix) ==
    IF adapter.cls = "SSM" THEN SSMConfig_get_credentials_by_prefix(adapter, prefix)
    ELSE DynamoConfig_get_credentials_by_prefix(adapter, prefix)

\* return self.default_source.get_credentials_by_prefix(prefix)
Facade_get_credentials_by_prefix(prefix) ==
    /\ cs.status = "ok"
    /\ LET adapter == cs.adapters[cs.default_source]
           ret == PrefixLookup(adapter, prefix)
       IN  /\ io' = [op |-> "get_credentials_by_prefix", cls |-> adapter.cls,
                     prefix |-> prefix, ret |-> ret]
           /\ dynamo_client' = IF adapter.cls = "Dynamo" THEN ClientTable(adapter)
                               ELSE dynamo_client
           /\ cs_ret' = [op |-> "get_credentials_by_prefix", outcome |-> ret.outcome,
                         target |-> cs.default_source]
    /\ UNCHANGED <<cs, environ, store_vars, gh_vars, eco_vars>>

NextPrefix ==
    \/ \E test \in BOOLEAN, sources \in DefaultBackends : ConfigSource_init(test, sources)
    \/ \E prefix \in Prefixes : Facade_get_credentials_by_prefix(prefix)

SpecPrefix == InitPrefix /\ [][NextPrefix]_vars

-----------------------------------------------------------------------------
(* Claims about get_credentials_by_prefix *)

Looked == io.op = "get_credentials_by_prefix"

TheAdapter == cs.adapters[cs.default_source]

\* the stored names the lookup is about: those in the environment and, for
\* Dynamo, the table the adapter reads, that begin with the normalized prefix
Discovered ==
    LET prefix == NormalizePrefix(io.prefix)
    IN  IF io.cls = "SSM"
        THEN {p.Name : p \in {q \in ssm_parameters :
                                 q.Tag = io.ret.calls[1].env /\ StartsWith(q.Name, prefix)}}
        ELSE {r.config_name : r \in {q \in dynamo_tables[io.ret.calls[1].table] :
                                 q.env = io.ret.calls[1].env /\ StartsWith(q.config_name, prefix)}}

\* C16: a stored value that is the text "None" comes back from prefix lookup
\* as null, never as the string "None", from the SSM and the Dynamo adapter.
C16_NoneTextIsNull ==
    Looked => \A k \in DOMAIN io.ret.value : io.ret.value[k] # PyStr("None")


\* the bulk fetches of the last lookup
BulkFetches == SelectSeq(io.ret.calls, LAMBDA c : c.f = "get_parameters")

\* the places (batch, position) at which a name was asked for
AskedAt(name) ==
    {<<i, j>> \in (1 .. Len(BulkFetches)) \X (1 .. MaxNames + 1) :
        j <= Len(BulkFetches[i].Names) /\ BulkFetches[i].Names[j] = name}

\* C17: the SSM prefix lookup asks for the discovered names in batches of at
\* most 10, every discovered name in exactly one batch and nothing else; with
\* no name discovered it issues no bulk fetch and returns an empty mapping.
C17_BatchesOfAtMostTen ==
    (Looked /\ io.cls = "SSM") =>
        /\ io.ret.calls[1].f = "describe_parameters"
        /\ \A i \in 1 .. Len(BulkFetches) :
               /\ Len(BulkFetches[i].Names) <= 10
               /\ \A j \in 1 .. Len(BulkFetches[i].Names) : BulkFetches[i].Names[j] \in Discovered
        /\ \A name \in Discovered : Cardinality(AskedAt(name)) = 1
        /\ Discovered = {} => (BulkFetches = <<>> /\ io.ret.value = <<>>)
        /\ io.ret.outcome = "return"

\* more than ten names discovered, fetched in two batches
C17_Witness ==
    /\ Looked
    /\ io.cls = "SSM"
    /\ Cardinality(Discovered) > 10
    /\ Len(BulkFetches) = 2
    /\ Len(BulkFetches[1].Names) = 10

\* name with the first n tokens dropped
DropStart(name, n) == SubSeq(name, n + 1, Len(name))

\* C18: the keys a prefix lookup returns are the stored names with the
\* normalized prefix removed from the start and the rest kept verbatim, so
\* distinct stored names give distinct keys.
C18_KeysAreNamesWithoutLeadingPrefix ==
    Looked =>
        /\ DOMAIN io.ret.value =
               {DropStart(name, Len(NormalizePrefix(io.prefix))) : name \in Discovered}
        /\ Cardinality(DOMAIN io.ret.value) = Cardinality(Discovered)

\* C19: for a prefix x that does not end in the separator, the lookup of x
\* and the lookup of x + "_" issue the same store queries and return the same
\* mapping, in the SSM and in the Dynamo adapter.
C19_NormalizationIdempotent ==
    (Looked /\ cs_ret.op = "get_credentials_by_prefix" /\ ~EndsWith(io.prefix, <<"_">>)) =>
        io.ret = PrefixLookup(TheAdapter, io.prefix \o <<"_">>)

\* a lookup of "x" that found names, in a store that also holds "xa"
C19_Witness ==
    /\ Looked
    /\ cs_ret.op = "get_credentials_by_prefix"
    /\ io.prefix = <<"x">>
    /\ io.cls = "Dynamo"
    /\ io.ret.value # <<>>
    /\ \E row \in dynamo_tables[io.ret.calls[1].table] : row.config_name = <<"x", "a">>


-----------------------------------------------------------------------------
(* SecretsManager.get_secrets_credentials *)

\* kwargs.get(key) of a key that was not passed
NotPassed == "<None>"

\* `not x` of a keyword argument
NotGiven(x) == x = NotPassed \/ x = ""

\* every filter is let through
ValidFilter_Any(filter_type, value) == "ok"

\* the two checks of the arguments, in their order
ValidFilter(filter_type, value) ==
    IF NotGiven(filter_type) \/ filter_type \notin {"tag", "name"} THEN "KeyError"
    ELSE IF NotGiven(value) THEN "KeyError"
    ELSE "ok"

\* secretsmanager_client.can_paginate(f): the client has a paginator for
\* list_secrets
SecretsCanPaginate(f) == f = "list_secrets"

\* list_secrets(Filters=[{'Key': 'name' | 'tag-value', 'Values': [value]}]):
\* the pages of the listing
list_secrets(filter_type, value) ==
    LET matching == Listed({x \in secrets :
                               IF filter_type = "name" THEN x.Name = value ELSE x.Tag = value})
    IN  IF matching = <<>> THEN << <<>> >> ELSE chunks(matching, MaxResults)

\* the loop over the listed secrets from position i
RECURSIVE ReadSecrets(_, _, _, _)
ReadSecrets(listed, i, secrets_dict, calls) ==
    IF i > Len(listed)
    THEN [outcome |-> "return", value |-> secrets_dict, calls |-> calls]
    ELSE ReadSecrets(listed, i + 1,
                     DictSet(secrets_dict, listed[i].Name, PyStr(listed[i].SecretString)),
                     Append(calls, [f |-> "get_secret_value", arg |-> listed[i].ARN]))

\* get_secrets_credentials(type=filter_type, value=value)
SecretsManager_get_secrets_credentials(filter_type, value) ==
    IF ValidFilter(filter_type, value) # "ok"
    THEN [outcome |-> ValidFilter(filter_type, value), value |-> <<>>, calls |-> <<>>]
    ELSE LET paged  == call_boto_with_pagination(list_secrets(filter_type, value),
                                                 SecretsCanPaginate("list_secrets"))
             listed == Flatten(paged.response_list)
         IN  ReadSecrets(listed, 1, <<>>, <<[f |-> "list_secrets", arg |-> value]>>)

-----------------------------------------------------------------------------
(* SpecSecrets: ConfigSource.get_secrets_credentials *)

\* the largest number of secrets the vault holds
MaxSecrets == 3

Secret(i) ==
    [Name |-> CASE i = 1 -> "db" [] i = 2 -> "api" [] OTHER -> "db-replica",
     ARN |-> CASE i = 1 -> "arn:1" [] i = 2 -> "arn:2" [] OTHER -> "arn:n",
     Tag |-> IF i % 2 = 1 THEN "blue" ELSE "green",
     SecretString |-> IF i % 2 = 1 THEN "{\"a\": 1}" ELSE "plain"]

FilterTypes == {NotPassed, "", "name", "tag", "arn"}

FilterValues == {NotPassed, "", "db", "blue", "nothing"}

InitSecrets ==
    /\ environ \in Environs
    /\ cs = NoConfigSource
    /\ cs_ret = NoConfigCall
    /\ boto_pages = <<>>
    /\ ssm_parameters = {}
    /\ dynamo_tables = <<>>
    /\ \E n \in 0 .. MaxSecrets : secrets = {Secret(i) : i \in 1 .. n}
    /\ dynamo_client = "none"
    /\ io = NoCall
    /\ GhInitState
    /\ EcoInitState

\* return self.secrets_manager_class.get_secrets_credentials(...)
Facade_get_secrets_credentials(filter_type, value) ==
    /\ cs.status = "ok"
    /\ LET ret == SecretsManager_get_secrets_credentials(filter_type, value)
       IN  /\ io' = [op |-> "get_secrets_credentials", type |-> filter_type,
                     value |-> value, ret |-> ret]
           /\ cs_ret' = [op |-> "get_secrets_credentials", outcome |-> ret.outcome, target |-> 0]
    /\ UNCHANGED <<cs, environ, store_vars, dynamo_client, gh_vars, eco_vars>>

NextSecrets ==
    \/ \E test \in BOOLEAN, sources \in DefaultBackends : ConfigSource_init(test, sources)
    \/ \E filter_type \in FilterTypes, value \in FilterValues :
           Facade_get_secrets_credentials(filter_type, value)

SpecSecrets == InitSecrets /\ [][NextSecrets]_vars

\* the secrets the last call's filter selects
Selected ==
    {x \in secrets : IF io.type = "name" THEN x.Name = io.value ELSE x.Tag = io.value}

\* C20: get_secrets_credentials raises when the filter type is missing or is
\* neither name nor tag, or when the value is missing or empty, before any
\* call to Secrets Manager; with a valid filter that selects nothing it
\* returns an empty mapping without error, whatever the default backend is.
C20_ValidatesBeforeVaultCalls ==
    io.op = "get_secrets_credentials" =>
        IF io.type \notin {"name", "tag"} \/ io.value \in {NotPassed, ""}
        THEN io.ret.outcome = "KeyError" /\ io.ret.calls = <<>>
        ELSE /\ io.ret.outcome = "return"
             /\ Selected = {} => io.ret.value = <<>>
             /\ DOMAIN io.ret.value = {x.Name : x \in Selected}

\* a filter of an unsupported type refused on a resolver whose default is SSM,
\* the vault holding secrets
C20_Witness ==
    /\ io.op = "get_secrets_credentials"
    /\ io.type = "arn"
    /\ io.value = "db"
    /\ io.ret.outcome = "KeyError"
    /\ secrets # {}
    /\ cs.status = "ok"
    /\ cs.adapters[cs.default_source].cls = "SSM"


-----------------------------------------------------------------------------
(* SpecThreads: add_running_tasks_for_labourer called from two threads of one
   process.  The statement
       self.running_tasks[labourer.id] = self.count_running_tasks_for_labourer(labourer) + count
   evaluates its right-hand side, the getter call, before it stores; the
   interpreter may switch threads in between. *)

\* the largest counter the model follows: the largest fetched count plus
\* MaxAdds of the largest delta
MaxCounter == MaxRunning + MaxAdds * SetMax(AddCounts)

\* the add calls for id that have read and not yet stored
Reading(id) == {t \in Threads : threads[t].pc = "store" /\ threads[t].id = id}

\* thread t evaluates the right-hand side: the getter runs, lazily fetching
\* the count, and its result stays on the thread's stack
AddRead(t, id, count, answer) ==
    LET r == CountRunning(id, answer)
    IN  /\ threads[t].pc = "idle"
        /\ Added(id).n + Cardinality(Reading(id)) < MaxAdds
        /\ r.outcome = "return" => r.val + count <= MaxCounter
        /\ IF r.outcome = "RuntimeError"
           THEN /\ eco_ret' = Ret("add_running_tasks_for_labourer", "RuntimeError", -1, <<>>, id, FALSE)
                /\ UNCHANGED <<running_tasks, rt_log, threads, overlap>>
           ELSE /\ running_tasks' = r.rt
                /\ rt_log' = r.log
                /\ threads' = [threads EXCEPT ![t] = [pc |-> "store", id |-> id, count |-> count,
                                                      current |-> r.val]]
                /\ overlap' = [overlap EXCEPT !.add = @ \/ InFlight]
                /\ UNCHANGED eco_ret
        /\ UNCHANGED <<task_client, health_metrics, hm_log, rt_added, stale, gh_vars, cfg_vars>>

\* thread t stores what it computed
AddStore(t) ==
    LET call == threads[t]
    IN  /\ call.pc = "store"
        /\ running_tasks' = StoreSum(running_tasks, call.id, call.current, call.count)
        /\ rt_added' = Put(rt_added, call.id, [n |-> Added(call.id).n + 1,
                                               sum |-> Added(call.id).sum + call.count])
        /\ threads' = [threads EXCEPT ![t] = IdleThread]
        /\ eco_ret' = Ret("add_running_tasks_for_labourer", "return", -1, <<>>, call.id, FALSE)
        /\ UNCHANGED <<task_client, health_metrics, hm_log, rt_log, stale, overlap, gh_vars, cfg_vars>>

NextThreads ==
    \/ register_task_manager
    \/ \E t \in Threads, count \in AddCounts, answer \in RunningCounts :
           AddRead(t, TheLabourerId, count, answer)
    \/ \E t \in Threads : AddStore(t)

SpecThreads == Init /\ [][NextThreads]_vars

\* what the counter of id is when no increment was lost: the count fetched
\* this epoch plus the deltas of the add calls that returned
FetchedPlusDeltas(id) == rt_log[id][1] + Added(id).sum

\* C21: as long as no add call overlaps with another call, no increment is
\* lost: every counter is the fetched count plus the sum of the deltas added.
\* (The other half of the claim, that overlapping calls for one labourer can
\* lose an increment, is the reachable state C21_Witness.)
C21_NoLossWithoutOverlap ==
    (~overlap.add /\ ~overlap.reg) =>
        \A id \in DOMAIN running_tasks :
            /\ Len(Logged(rt_log, id)) = 1
            /\ running_tasks[id] = FetchedPlusDeltas(id)

\* two add calls for one labourer overlapped, both returned, and the counter
\* is less than the fetched count plus the two deltas
C21_Witness ==
    /\ overlap.add
    /\ ~overlap.reg
    /\ ~InFlight
    /\ \E id \in DOMAIN running_tasks :
           /\ Added(id).n = 2
           /\ Len(Logged(rt_log, id)) = 1
           /\ running_tasks[id] < FetchedPlusDeltas(id)


-----------------------------------------------------------------------------
(* The metric-sample cache before registration *)

\* C24: while register_task_manager was never called there is no
\* metric-sample cache: get_labourer_status of a labourer with a health
\* metric raises, returning no status and fetching nothing from the metrics
\* source; of a labourer without metrics it returns High (4).
C24_NoCacheBeforeRegistration ==
    (health_metrics.isNone /\ eco_ret.op = "get_labourer_status") =>
        /\ hm_log = <<>>
        /\ health_metrics.cache = <<>>
        /\ IF eco_ret.lab = <<>>
           THEN eco_ret.outcome = "return" /\ eco_ret.val = 4
           ELSE eco_ret.outcome = "TypeError"

\* a labourer with two metrics evaluated on a manager never registered with
C24_Witness ==
    /\ health_metrics.isNone
    /\ task_client = "None"
    /\ eco_ret.op = "get_labourer_status"
    /\ Len(eco_ret.lab) = 2
    /\ eco_ret.outcome = "TypeError"


-----------------------------------------------------------------------------
(* DynamoConfig.update_config and SSMConfig.update_config *)

\* dynamo_client.update(keys={'env': env, 'config_name': name},
\*                      attributes_to_update={'config_value': val}): the row of
\* that key gets the value, and exists afterwards
Upsert(tables, table, env, name, val) ==
    [tables EXCEPT ![table] =
        {row \in @ : ~(row.env = env /\ row.config_name = name)}
        \cup {[env |-> env, config_name |-> name, config_value |-> val]}]

\* if self.test or os.environ.get('STAGE') in ['test', 'autotest']: env = "dev"
UpdateEnv(adapter) ==
    IF adapter.test \/ environ.STAGE \in {"test", "autotest"} THEN "dev" ELSE "production"

\* update_config(name, val) of the Dynamo adapter
DynamoConfig_update_config(adapter, name, val) ==
    LET env   == UpdateEnv(adapter)
        table == ClientTable(adapter)
    IN  [outcome |-> "return", table |-> table, env |-> env,
         tables |-> Upsert(dynamo_tables, table, env, name, val)]

\* ssm_client.put_parameter(Name=name, Value=val, Type='String', Overwrite=True)
put_parameter(name, val) ==
    LET old == {p \in ssm_parameters : p.Name = name}
        tag == IF old = {} THEN "" ELSE (CHOOSE p \in old : TRUE).Tag
    IN  (ssm_parameters \ old)
        \cup {[Name |-> name, Tag |-> tag, Type |-> "String", Value |-> val]}

-----------------------------------------------------------------------------
(* SpecTable: one resolver, its calls following one another *)

\* the name written and read
TableConfigName == <<"k", "_", "a">>

UpdateValues == {"12", "plain"}

TablePrefixes == {<<"k">>}

NoFaults == [i \in 1 .. 2 |-> FALSE]

InitTable ==
    /\ environ \in Environs
    /\ cs = NoConfigSource
    /\ cs_ret = NoConfigCall
    /\ boto_pages = <<>>
    /\ secrets = {}
    /\ \/ ssm_parameters = {} /\ dynamo_tables = [t \in TableNames |-> {}]
       \/ /\ ssm_parameters = {[Name |-> TableConfigName, Tag |-> "production",
                                Type |-> "String", Value |-> "{\"a\": 1}"]}
          /\ dynamo_tables = [t \in TableNames |->
                                 IF t = "config"
                                 THEN {[env |-> "production", config_name |-> TableConfigName,
                                        config_value |-> "{\"a\": 1}"]}
                                 ELSE {}]
    /\ dynamo_client = "none"
    /\ io = NoCall
    /\ GhInitState
    /\ EcoInitState

\* return self.default_source.update_config(name, val)
Facade_update_config(name, val) ==
    /\ cs.status = "ok"
    /\ LET adapter == cs.adapters[cs.default_source]
       IN  IF adapter.cls = "Dynamo"
           THEN LET ret == DynamoConfig_update_config(adapter, name, val)
                IN  /\ dynamo_tables' = ret.tables
                    /\ dynamo_client' = ret.table
                    /\ io' = [op |-> "update_config", cls |-> "Dynamo", name |-> name,
                              val |-> val, ret |-> [outcome |-> "return", table |-> ret.table,
                                                    env |-> ret.env]]
                    /\ UNCHANGED ssm_parameters
           ELSE /\ ssm_parameters' = put_parameter(name, val)
                /\ io' = [op |-> "update_config", cls |-> "SSM", name |-> name,
                          val |-> val, ret |-> [outcome |-> "return", table |-> "", env |-> ""]]
                /\ UNCHANGED <<dynamo_tables, dynamo_client>>
    /\ cs_ret' = [op |-> "update_config", outcome |-> "return", target |-> cs.default_source]
    /\ UNCHANGED <<cs, environ, boto_pages, secrets, gh_vars, eco_vars>>

NextTable ==
    \/ \E test \in BOOLEAN, sources \in DefaultBackends : ConfigSource_init(test, sources)
    \/ \E val \in UpdateValues : Facade_update_config(TableConfigName, val)
    \/ Facade_get_config(TableConfigName, NoFaults)
    \/ \E prefix \in TablePrefixes : Facade_get_credentials_by_prefix(prefix)

SpecTable == InitTable /\ [][NextTable]_vars

\* C22: with Dynamo as the backend, a get_config(name) through the facade
\* right after update_config(name, v) on the same adapter reads the
\* environment key that the update wrote, in every mode (production, test
\* flag, ambient markers).
C22_SetAndGetSameEnvironment ==
    [][(/\ io.op = "update_config"
        /\ io.cls = "Dynamo"
        /\ dynamo_client # "none"
        /\ io'.op = "get_config"
        /\ io'.cls = "Dynamo"
        /\ io'.name = io.name) => io'.ret.env = io.ret.env]_vars

\* C23: a Dynamo adapter in test mode addresses one table in all its
\* operations: whatever get_config, update_config or prefix lookup it
\* performs next goes to the table its previous operation went to.
C23_OneTableWhateverTheOrder ==
    [][(/\ cs.status = "ok"
        /\ cs' = cs
        /\ cs_ret'.op # "__init__"
        /\ TheAdapter.cls = "Dynamo"
        /\ TheAdapter.test
        /\ dynamo_client # "none") => dynamo_client' = dynamo_client]_vars

=============================================================================
